---- MODULE Spec2Model ----
\* Model of the Cloudflare Access gateway worker: the accessAuth middleware
\* (src/src/middleware/auth.ts, dual-mode version) and the Hono application
\* with its forwarding routes and WebSocket bridge (src/unnamed/part_000).
\*
\* One behaviour is the life of one inbound request: it is received, passes
\* through accessAuth, is dispatched to the first matching route, possibly
\* issues one fetch on the VPC_SERVICE binding, and gets a response. When the
\* response is the 101 of the WebSocket route, the bridge listeners then react
\* to message / close / error events on the two sockets.
EXTENDS Integers, Sequences, FiniteSets, TLC

\* ---------------------------------------------------------------- bounds
MaxEvents == 3          \* socket events delivered to one bridge session

\* ------------------------------------------------------------ JS values
Undef == "<undefined>"  \* an unset binding / header() of an absent header

\* JavaScript truthiness of a string-or-undefined value.
Truthy(v) == v # Undef /\ v # ""

\* ------------------------------------------------------- configuration
TeamName == "team.cloudflareaccess.com"
AudTag == "aud-1"
OtherAud == "aud-2"

\* c.env: the bindings the code reads. A configuration fault (team or
\* audience unset) is enumerated with the remaining bindings set.
Envs ==
    {[CF_ACCESS_TEAM_NAME |-> TeamName, CF_ACCESS_AUD |-> AudTag,
      CF_ACCESS_CLIENT_ID |-> i, CF_ACCESS_CLIENT_SECRET |-> s,
      OPENCLAW_GATEWAY_TOKEN |-> g] :
        i \in {Undef, "id-1"}, s \in {Undef, "secret-1"}, g \in {Undef, "gw-token"}}
    \cup
    {[CF_ACCESS_TEAM_NAME |-> t, CF_ACCESS_AUD |-> a,
      CF_ACCESS_CLIENT_ID |-> "id-1", CF_ACCESS_CLIENT_SECRET |-> "secret-1",
      OPENCLAW_GATEWAY_TOKEN |-> "gw-token"] :
        t \in {Undef, "", TeamName}, a \in {Undef, AudTag}}

\* ------------------------------------------------------------ requests
Methods == {"GET", "POST"}

\* URL paths as sequences of segments: <<>> is "/".
Paths ==
    { <<>>,
      <<"v1", "chat", "completions">>,
      <<"tools", "invoke">>,
      <<"app", "assets", "a.js">>,
      <<"app", "favicon.ico">>,
      <<"app", "favicon.svg">>,
      <<"app", "chat">>,
      <<"assets", "a.js">>,
      <<"unknown", "path">> }

ClientIdHeaders == {Undef, "", "id-1", "id-2"}
ClientSecretHeaders == {Undef, "secret-1", "secret-2"}
UpgradeHeaders == {Undef, "websocket", "WebSocket"}

\* The compact tokens a caller can put into cf-access-jwt-assertion, and
\* what each decodes to. sig is the key that signed it, time the position
\* of the current time relative to its nbf / exp claims.
Issuer(team) == <<"https://", team>>

TokenClaims ==
    [tok \in {"jwt-valid", "jwt-badsig", "jwt-iss", "jwt-aud", "jwt-expired",
              "jwt-notyet"} |->
        [sig  |-> IF tok = "jwt-badsig" THEN "other-key" ELSE "access-key",
         iss  |-> IF tok = "jwt-iss" THEN Issuer("evil.example") ELSE Issuer(TeamName),
         aud  |-> IF tok = "jwt-aud" THEN OtherAud ELSE AudTag,
         time |-> CASE tok = "jwt-expired" -> "after-exp"
                    [] tok = "jwt-notyet" -> "before-nbf"
                    [] OTHER -> "within"]]

JwtHeaders == {Undef, "not-a-jwt"} \cup DOMAIN TokenClaims

OriginHeaders == {Undef, "https://caller.example"}
Bodies == {"body-a", "body-b"}

\* A body and an Origin header are enumerated for the requests whose
\* handler forwards them, the two POST routes.
Requests ==
    {r \in [method : Methods, path : Paths,
            clientId : ClientIdHeaders, clientSecret : ClientSecretHeaders,
            jwt : JwtHeaders, upgrade : UpgradeHeaders,
            origin : OriginHeaders, body : Bodies \cup {Undef}] :
        IF r.method = "POST"
           /\ r.path \in {<<"v1", "chat", "completions">>, <<"tools", "invoke">>}
        THEN r.body # Undef
        ELSE r.body = Undef /\ r.origin = Undef}

NoReq == [method |-> Undef, path |-> <<>>, clientId |-> Undef,
          clientSecret |-> Undef, jwt |-> Undef, upgrade |-> Undef,
          origin |-> Undef, body |-> Undef]

\* ----------------------------------------------------------- responses
\* A body is the sequence of the text chunks it is built from.
NoResp == [status |-> 0, body |-> <<>>, webSocket |-> Undef, location |-> Undef]

\* c.json({ error: ... }, status)
Json(status, error) ==
    [status |-> status, body |-> <<"{\"error\":\"", error, "\"}">>,
     webSocket |-> Undef, location |-> Undef]

\* What VPC_SERVICE.fetch can resolve to. A response carries a socket only
\* as the 101 answer to a request that asked for the upgrade.
BackendBodies == {"payload-a", "payload-b"}
PlainResponses ==
    {[status |-> st, body |-> <<b>>, webSocket |-> Undef, location |-> Undef] :
        st \in {200, 404, 500}, b \in BackendBodies}
UpgradeResponse ==
    [status |-> 101, body |-> <<>>, webSocket |-> "openclawWs", location |-> Undef]
\* ... or reject with: the text of the transport error.
FetchErrors == {"connect ECONNREFUSED", "network timeout"}

BackendOrigin == "http://localhost:18789"

NoUpstream == [kind |-> "none", response |-> NoResp, error |-> ""]

\* ------------------------------------------------- accessAuth (dual mode)
\* Variant: the audience check is left out.
ConfigMissing_TeamOnly(e) == ~Truthy(e.CF_ACCESS_TEAM_NAME)

\* Lines 84-92: the two required bindings.
ConfigMissing(e) ==
    ~Truthy(e.CF_ACCESS_TEAM_NAME) \/ ~Truthy(e.CF_ACCESS_AUD)

ConfigLog(e) ==
    IF ~Truthy(e.CF_ACCESS_TEAM_NAME)
    THEN <<"error", "[Auth] CF_ACCESS_TEAM_NAME environment variable is not set">>
    ELSE <<"error", "[Auth] CF_ACCESS_AUD secret is not set">>

\* Variant: the client id header alone takes the service-token path.
ServiceTokenPresented_IdOnly(r) == Truthy(r.clientId)

\* Variant: one of the two headers is enough to take the service-token path.
ServiceTokenPresented_Either(r) == Truthy(r.clientId) \/ Truthy(r.clientSecret)

\* Line 98: if (clientId && clientSecret)
ServiceTokenPresented(r) == Truthy(r.clientId) /\ Truthy(r.clientSecret)

\* Variant: the presented values are compared with the wrong bindings.
ServiceTokenValid_Swapped(e, r) ==
    /\ Truthy(e.CF_ACCESS_CLIENT_ID)
    /\ Truthy(e.CF_ACCESS_CLIENT_SECRET)
    /\ r.clientId = e.CF_ACCESS_CLIENT_SECRET
    /\ r.clientSecret = e.CF_ACCESS_CLIENT_ID

\* Lines 100-105: the comparison with the configured pair.
ServiceTokenValid(e, r) ==
    /\ Truthy(e.CF_ACCESS_CLIENT_ID)
    /\ Truthy(e.CF_ACCESS_CLIENT_SECRET)
    /\ r.clientId = e.CF_ACCESS_CLIENT_ID
    /\ r.clientSecret = e.CF_ACCESS_CLIENT_SECRET

\* Lines 125-127: the key-set URL.
JwksUrl(e) == <<"https://", e.CF_ACCESS_TEAM_NAME, "/cdn-cgi/access/certs">>

\* The key set served at a URL: the team's own endpoint serves the key that
\* Cloudflare Access signs with.
KeysAt(url) ==
    IF url = <<"https://", TeamName, "/cdn-cgi/access/certs">>
    THEN {"access-key"} ELSE {}

\* Variant: the audience option is not passed.
jwtVerify_NoAudience(token, keys, issuer, audience) ==
    /\ token \in DOMAIN TokenClaims
    /\ TokenClaims[token].sig \in keys
    /\ TokenClaims[token].iss = issuer
    /\ TokenClaims[token].time = "within"

\* Lines 134-137: jwtVerify(token, JWKS, { issuer, audience }). keys is the
\* fetched key set, empty when the fetch failed. TRUE when it resolves,
\* FALSE when it throws.
jwtVerify(token, keys, issuer, audience) ==
    /\ token \in DOMAIN TokenClaims
    /\ TokenClaims[token].sig \in keys
    /\ TokenClaims[token].iss = issuer
    /\ TokenClaims[token].aud = audience
    /\ TokenClaims[token].time = "within"

\* Variant: a service token that does not match falls back to the JWT.
accessAuth_Fallback(e, r) ==
    IF ConfigMissing(e)
    THEN [kind |-> "respond", resp |-> Json(500, "Server configuration error"),
          log |-> <<ConfigLog(e)>>]
    ELSE IF ServiceTokenPresented(r) /\ ServiceTokenValid(e, r)
    THEN [kind |-> "next", resp |-> NoResp,
          log |-> << <<"log", "[Auth] Service token validated successfully">> >>]
    ELSE IF ~Truthy(r.jwt)
    THEN [kind |-> "respond",
          resp |-> Json(403, "Missing required CF Access JWT or service token"),
          log |-> <<>>]
    ELSE [kind |-> "verify", resp |-> NoResp, log |-> <<>>]

\* Variant: the check for a missing token is left to jwtVerify.
accessAuth_NoMissingCheck(e, r) ==
    IF ConfigMissing(e)
    THEN [kind |-> "respond", resp |-> Json(500, "Server configuration error"),
          log |-> <<ConfigLog(e)>>]
    ELSE IF ServiceTokenPresented(r)
    THEN IF ServiceTokenValid(e, r)
         THEN [kind |-> "next", resp |-> NoResp,
               log |-> << <<"log", "[Auth] Service token validated successfully">> >>]
         ELSE [kind |-> "respond", resp |-> Json(403, "Invalid service token"),
               log |-> << <<"error", "[Auth] Invalid service token credentials">> >>]
    ELSE [kind |-> "verify", resp |-> NoResp, log |-> <<>>]

\* The synchronous part of the middleware, up to its first await:
\*   respond - it returns a response, next() is not called
\*   next    - the service token matched, it awaits next()
\*   verify  - it goes on to the JWT verification
accessAuth(e, r) ==
    IF ConfigMissing(e)
    THEN [kind |-> "respond", resp |-> Json(500, "Server configuration error"),
          log |-> <<ConfigLog(e)>>]
    ELSE IF ServiceTokenPresented(r)
    THEN IF ServiceTokenValid(e, r)
         THEN [kind |-> "next", resp |-> NoResp,
               log |-> << <<"log", "[Auth] Service token validated successfully">> >>]
         ELSE [kind |-> "respond", resp |-> Json(403, "Invalid service token"),
               log |-> << <<"error", "[Auth] Invalid service token credentials">> >>]
    ELSE IF ~Truthy(r.jwt)
    THEN [kind |-> "respond",
          resp |-> Json(403, "Missing required CF Access JWT or service token"),
          log |-> <<>>]
    ELSE [kind |-> "verify", resp |-> NoResp, log |-> <<>>]

\* The message of the error jwtVerify throws, "" when it resolves: the token
\* is parsed, the key fetched, the signature verified, then the claims.
jwtVerifyError(token, keys, issuer, audience) ==
    CASE token \notin DOMAIN TokenClaims -> "Invalid Compact JWS"
      [] keys = {} -> "Expected 200 OK from the JSON Web Key Set HTTP response"
      [] TokenClaims[token].sig \notin keys -> "signature verification failed"
      [] TokenClaims[token].iss # issuer -> "unexpected \"iss\" claim value"
      [] TokenClaims[token].aud # audience -> "unexpected \"aud\" claim value"
      [] TokenClaims[token].time = "before-nbf" -> "\"nbf\" claim timestamp check failed"
      [] TokenClaims[token].time = "after-exp" -> "\"exp\" claim timestamp check failed"
      [] OTHER -> ""

\* ------------------------------------------------ the JWT-only version
\* Variant: a request without the assertion header is answered 401.
accessAuthJwtOnly_Missing401(e, r) ==
    IF ConfigMissing(e)
    THEN [kind |-> "respond", resp |-> Json(500, "Server configuration error"),
          log |-> <<ConfigLog(e)>>]
    ELSE IF ~Truthy(r.jwt)
    THEN [kind |-> "respond", resp |-> Json(401, "Missing required CF Access JWT"),
          log |-> <<>>]
    ELSE [kind |-> "verify", resp |-> NoResp, log |-> <<>>]

\* The first accessAuth of auth.ts (lines 15-61), which knows no service
\* token, up to its first await.
accessAuthJwtOnly(e, r) ==
    IF ConfigMissing(e)
    THEN [kind |-> "respond", resp |-> Json(500, "Server configuration error"),
          log |-> <<ConfigLog(e)>>]
    ELSE IF ~Truthy(r.jwt)
    THEN [kind |-> "respond", resp |-> Json(403, "Missing required CF Access JWT"),
          log |-> <<>>]
    ELSE [kind |-> "verify", resp |-> NoResp, log |-> <<>>]

\* Its decision once the key set was fetched (keys) or not (keys empty):
\* next is whether it calls next(), resp the response it returns otherwise.
accessAuthJwtOnlyDecision(e, r, keys) ==
    LET a == accessAuthJwtOnly(e, r) IN
    IF a.kind = "respond"
    THEN [next |-> FALSE, resp |-> a.resp]
    ELSE IF jwtVerify(r.jwt, keys, Issuer(e.CF_ACCESS_TEAM_NAME), e.CF_ACCESS_AUD)
    THEN [next |-> TRUE, resp |-> NoResp]
    ELSE [next |-> FALSE, resp |-> Json(403, "Invalid or expired token")]

\* ---------------------------------------------------------------- router
\* Variant: the /app/* catch-all is registered before the asset and favicon
\* routes.
Routes_SpaFirst ==
    << [name |-> "chat",       method |-> "POST", prefix |-> <<"v1", "chat", "completions">>, wild |-> FALSE],
       [name |-> "tools",      method |-> "POST", prefix |-> <<"tools", "invoke">>,          wild |-> FALSE],
       [name |-> "spa",        method |-> "GET",  prefix |-> <<"app">>,                      wild |-> TRUE],
       [name |-> "appAssets",  method |-> "GET",  prefix |-> <<"app", "assets">>,            wild |-> TRUE],
       [name |-> "faviconIco", method |-> "GET",  prefix |-> <<"app", "favicon.ico">>,       wild |-> FALSE],
       [name |-> "faviconSvg", method |-> "GET",  prefix |-> <<"app", "favicon.svg">>,       wild |-> FALSE],
       [name |-> "assets",     method |-> "GET",  prefix |-> <<"assets">>,                   wild |-> TRUE],
       [name |-> "root",       method |-> "GET",  prefix |-> <<>>,                           wild |-> FALSE],
       [name |-> "notFound",   method |-> "ALL",  prefix |-> <<>>,                           wild |-> TRUE] >>

\* The routes in registration order (after app.use("*", accessAuth)). A
\* pattern is a segment prefix, followed or not by the wildcard.
Routes ==
    << [name |-> "chat",       method |-> "POST", prefix |-> <<"v1", "chat", "completions">>, wild |-> FALSE],
       [name |-> "tools",      method |-> "POST", prefix |-> <<"tools", "invoke">>,          wild |-> FALSE],
       [name |-> "appAssets",  method |-> "GET",  prefix |-> <<"app", "assets">>,            wild |-> TRUE],
       [name |-> "faviconIco", method |-> "GET",  prefix |-> <<"app", "favicon.ico">>,       wild |-> FALSE],
       [name |-> "faviconSvg", method |-> "GET",  prefix |-> <<"app", "favicon.svg">>,       wild |-> FALSE],
       [name |-> "spa",        method |-> "GET",  prefix |-> <<"app">>,                      wild |-> TRUE],
       [name |-> "assets",     method |-> "GET",  prefix |-> <<"assets">>,                   wild |-> TRUE],
       [name |-> "root",       method |-> "GET",  prefix |-> <<>>,                           wild |-> FALSE],
       [name |-> "notFound",   method |-> "ALL",  prefix |-> <<>>,                           wild |-> TRUE] >>

IsPrefix(p, path) == Len(p) <= Len(path) /\ SubSeq(path, 1, Len(p)) = p

\* Variant: the method of the registration is ignored.
RouteMatches_AnyMethod(rt, method, path) ==
    IF rt.wild THEN IsPrefix(rt.prefix, path) ELSE path = rt.prefix

RouteMatches(rt, method, path) ==
    /\ rt.method \in {"ALL", method}
    /\ IF rt.wild THEN IsPrefix(rt.prefix, path) ELSE path = rt.prefix

\* The handler that answers: the first registered route that matches.
MatchRoute(method, path) ==
    LET i == CHOOSE k \in 1..Len(Routes) :
                /\ RouteMatches(Routes[k], method, path)
                /\ \A j \in 1..(k - 1) : ~RouteMatches(Routes[j], method, path)
    IN Routes[i].name

\* url.pathname.replace("/app/assets", "/assets"): the first occurrence.
RECURSIVE ReplaceFirst(_, _, _)
ReplaceFirst(path, from, to) ==
    IF Len(path) < Len(from) THEN path
    ELSE IF IsPrefix(from, path)
         THEN to \o SubSeq(path, Len(from) + 1, Len(path))
         ELSE <<Head(path)>> \o ReplaceFirst(Tail(path), from, to)

\* --------------------------------------------------- the outbound request
NoHeaders ==
    [Origin |-> Undef, ContentType |-> Undef, Authorization |-> <<>>,
     Upgrade |-> Undef, Connection |-> Undef, SecWebSocketVersion |-> Undef,
     clientId |-> Undef, clientSecret |-> Undef, jwt |-> Undef]

OriginOnly == [NoHeaders EXCEPT !.Origin = BackendOrigin]

\* c.req.raw.headers: the headers of the inbound request.
rawHeaders(r) ==
    [NoHeaders EXCEPT !.Origin = r.origin, !.Upgrade = r.upgrade,
                      !.clientId = r.clientId, !.clientSecret = r.clientSecret,
                      !.jwt = r.jwt]

\* Variant: the Origin of the caller is passed on.
mergedHeaders_NoOverride(r) == rawHeaders(r)

\* new Headers(c.req.raw.headers) followed by set('Origin', ...)
mergedHeaders(r) == [rawHeaders(r) EXCEPT !.Origin = BackendOrigin]

\* The arguments of c.env.VPC_SERVICE.fetch for each route.
Outbound(name, e, r) ==
    CASE name = "chat" ->
           [method |-> "POST", path |-> <<"v1", "chat", "completions">>,
            headers |-> [NoHeaders EXCEPT !.Origin = BackendOrigin,
                            !.ContentType = "application/json",
                            !.Authorization = <<"Bearer ", e.OPENCLAW_GATEWAY_TOKEN>>],
            body |-> r.body]
      [] name = "tools" ->
           [method |-> "POST", path |-> <<"tools", "invoke">>, headers |-> mergedHeaders(r),
            body |-> r.body]
      [] name = "appAssets" ->
           [method |-> "GET", path |-> ReplaceFirst(r.path, <<"app", "assets">>, <<"assets">>),
            headers |-> OriginOnly, body |-> Undef]
      [] name = "faviconIco" ->
           [method |-> "GET", path |-> <<"favicon.ico">>, headers |-> OriginOnly, body |-> Undef]
      [] name = "faviconSvg" ->
           [method |-> "GET", path |-> <<"favicon.svg">>, headers |-> OriginOnly, body |-> Undef]
      [] name = "spa" ->
           [method |-> "GET", path |-> <<>>, headers |-> OriginOnly, body |-> Undef]
      [] name = "assets" ->
           [method |-> "GET", path |-> r.path, headers |-> OriginOnly, body |-> Undef]
      [] name = "root" ->
           [method |-> "GET", path |-> <<>>,
            headers |-> [NoHeaders EXCEPT !.Origin = BackendOrigin,
                            !.Upgrade = "websocket", !.Connection = "Upgrade",
                            !.SecWebSocketVersion = "13"],
            body |-> Undef]

\* What the backend can answer to an outbound request.
BackendResponses(out) ==
    PlainResponses \cup
    (IF out.method = "GET" /\ out.headers.Upgrade = "websocket"
     THEN {UpgradeResponse} ELSE {})

\* ------------------------------------------------------------- sockets
\* A socket is none (not created), pending (created, not accepted), open,
\* closing (close() was called on it, the peer's close has not arrived yet),
\* failed (its error event was dispatched) or closed (its close event was
\* dispatched).
Sockets == {"server", "openclawWs"}

MessageData == {"frame-a", "frame-b"}

\* The <<code, reason>> a close event can carry: normal closure with and
\* without a reason, no status received, abnormal closure, application code.
CloseEvents ==
    { <<1000, "">>, <<1000, "done">>, <<1005, "">>, <<1006, "">>, <<4000, "app">> }

\* The codes close() accepts; it throws on any other.
ValidCloseCode(code) ==
    /\ code >= 1000
    /\ code < 5000
    /\ code \notin {1004, 1005, 1006, 1015}

\* send(data) on a socket in state st: TRUE when the data goes out, FALSE
\* when send throws.
SendOk(st) == st = "open"

\* close(code, reason) on a socket in state st takes effect (TRUE) or does
\* nothing: it throws on a code it does not accept and is ignored on a
\* socket that is no longer open.
CloseOk(st, code) == st = "open" /\ ValidCloseCode(code)

\* ----------------------------------------------------------------- state
VARIABLES
    env,          \* c.env, fixed for the life of the worker
    req,          \* the inbound request being handled
    pc,           \* where the request is: idle, auth, verify, route, fetch, done, delivered
    resp,         \* the response the application returns
    route,        \* the route handler that was invoked
    authVia,      \* how accessAuth authenticated the request
    nextCalls,    \* number of times accessAuth called next()
    verifyCalls,  \* the jwtVerify calls: the key-set URL and the keys fetched from it
    fetches,      \* the requests issued through VPC_SERVICE.fetch
    upstream,     \* how the last fetch settled: the response or the error
    log,          \* console.log / console.error entries
    pairs,        \* number of WebSocketPair objects created
    listeners,    \* the bridge listeners are registered
    server,       \* state of the worker's end of the WebSocketPair
    openclawWs,   \* state of the socket the backend returned
    sent,         \* per socket, the data passed to its send() that went out
    closed,       \* per socket, the <<code, reason>> of the close() calls that took effect
    events,       \* the events dispatched to the bridge listeners, oldest first
    calls,        \* the send() / close() calls the listeners issued, oldest first
    cur,          \* the in-flight request whose step the event loop is running
    saved         \* per in-flight request, its own state while another one runs

httpVars == <<req, pc, resp, route, authVia, nextCalls, verifyCalls, fetches, upstream, log, pairs>>
wsVars == <<listeners, server, openclawWs, sent, closed, events, calls>>
vars == <<env, httpVars, wsVars, cur, saved>>

\* The requests that can be in flight at the same time.
MaxRequests == 2
RequestIds == 1..MaxRequests

\* What one invocation of the middleware and of a handler owns: the
\* context c, the locals of the closures and the sockets they close over.
RequestRecord ==
    [req |-> req, pc |-> pc, resp |-> resp, route |-> route, authVia |-> authVia,
     nextCalls |-> nextCalls, verifyCalls |-> verifyCalls, fetches |-> fetches,
     upstream |-> upstream, log |-> log, pairs |-> pairs, listeners |-> listeners,
     server |-> server, openclawWs |-> openclawWs, sent |-> sent, closed |-> closed,
     events |-> events, calls |-> calls]

\* The record of a request that has not arrived yet.
IdleRecord ==
    [req |-> NoReq, pc |-> "idle", resp |-> NoResp, route |-> Undef, authVia |-> Undef,
     nextCalls |-> 0, verifyCalls |-> <<>>, fetches |-> <<>>,
     upstream |-> NoUpstream, log |-> <<>>, pairs |-> 0, listeners |-> FALSE,
     server |-> "none", openclawWs |-> "none", sent |-> [x \in Sockets |-> <<>>],
     closed |-> [x \in Sockets |-> <<>>], events |-> <<>>, calls |-> <<>>]

Init ==
    /\ env \in Envs
    /\ req = NoReq
    /\ pc = "idle"
    /\ resp = NoResp
    /\ route = Undef
    /\ authVia = Undef
    /\ nextCalls = 0
    /\ verifyCalls = <<>>
    /\ fetches = <<>>
    /\ upstream = NoUpstream
    /\ log = <<>>
    /\ pairs = 0
    /\ listeners = FALSE
    /\ server = "none"
    /\ openclawWs = "none"
    /\ sent = [x \in Sockets |-> <<>>]
    /\ closed = [x \in Sockets |-> <<>>]
    /\ events = <<>>
    /\ calls = <<>>
    /\ cur = 1
    /\ saved = [i \in RequestIds |-> IdleRecord]

\* The runtime hands a request to the application.
Receive ==
    /\ pc = "idle"
    /\ req' \in Requests
    /\ pc' = "auth"
    /\ UNCHANGED <<env, cur, saved, resp, route, authVia, nextCalls, verifyCalls, fetches, upstream, log, pairs, wsVars>>

\* Variant: the middleware goes on to next() after it built a rejection.
AuthCheck_NoReturn ==
    /\ pc = "auth"
    /\ LET a == accessAuth(env, req) IN
        /\ log' = log \o a.log
        /\ resp' = a.resp
        /\ pc' = IF a.kind = "verify" THEN "verify" ELSE "route"
        /\ authVia' = IF a.kind = "next" THEN "service-token" ELSE authVia
    /\ UNCHANGED <<env, cur, saved, req, route, nextCalls, verifyCalls, fetches, upstream, pairs, wsVars>>

\* accessAuth up to its first await (auth.ts 84-120).
AuthCheck ==
    /\ pc = "auth"
    /\ LET a == accessAuth(env, req) IN
        /\ log' = log \o a.log
        /\ resp' = a.resp
        /\ pc' = CASE a.kind = "respond" -> "done"
                   [] a.kind = "next" -> "route"
                   [] a.kind = "verify" -> "verify"
        /\ authVia' = IF a.kind = "next" THEN "service-token" ELSE authVia
    /\ UNCHANGED <<env, cur, saved, req, route, nextCalls, verifyCalls, fetches, upstream, pairs, wsVars>>

\* Variant: the key set is fetched outside the try block, a failed fetch
\* escapes accessAuth and app.onError answers.
AuthVerify_FetchEscapes ==
    /\ pc = "verify"
    /\ \E fetched \in BOOLEAN :
        LET url == JwksUrl(env)
            keys == IF fetched THEN KeysAt(url) ELSE {}
            issuer == Issuer(env.CF_ACCESS_TEAM_NAME)
            audience == env.CF_ACCESS_AUD
        IN
        /\ verifyCalls' = Append(verifyCalls, [url |-> url, keys |-> keys])
        /\ IF jwtVerify(req.jwt, keys, issuer, audience)
           THEN /\ pc' = "route"
                /\ authVia' = "jwt"
                /\ UNCHANGED <<resp, log>>
           ELSE /\ pc' = "done"
                /\ resp' = IF keys = {} THEN Json(500, "Internal server error")
                           ELSE Json(403, "Invalid or expired token")
                /\ log' = Append(log, <<"error", "[Auth] JWT validation failed:",
                                        jwtVerifyError(req.jwt, keys, issuer, audience)>>)
                /\ UNCHANGED authVia
    /\ UNCHANGED <<env, cur, saved, req, route, nextCalls, fetches, upstream, pairs, wsVars>>

\* The try block of accessAuth (auth.ts 122-146): the key set is fetched,
\* or the fetch fails, and jwtVerify resolves or throws into the catch.
AuthVerify ==
    /\ pc = "verify"
    /\ \E fetched \in BOOLEAN :
        LET url == JwksUrl(env)
            keys == IF fetched THEN KeysAt(url) ELSE {}
            issuer == Issuer(env.CF_ACCESS_TEAM_NAME)
            audience == env.CF_ACCESS_AUD
        IN
        /\ verifyCalls' = Append(verifyCalls, [url |-> url, keys |-> keys])
        /\ IF jwtVerify(req.jwt, keys, issuer, audience)
           THEN /\ pc' = "route"
                /\ authVia' = "jwt"
                /\ UNCHANGED <<resp, log>>
           ELSE /\ pc' = "done"
                /\ resp' = Json(403, "Invalid or expired token")
                /\ log' = Append(log, <<"error", "[Auth] JWT validation failed:",
                                        jwtVerifyError(req.jwt, keys, issuer, audience)>>)
                /\ UNCHANGED authVia
    /\ UNCHANGED <<env, cur, saved, req, route, nextCalls, fetches, upstream, pairs, wsVars>>

\* ------------------------------------------------------- route handlers
Plain(status, text) ==
    [status |-> status, body |-> text, webSocket |-> Undef, location |-> Undef]

\* Variant: the root handler does not look at the Upgrade header.
HandlerStart_AlwaysUpgrade(name, e, r) ==
    CASE name = "chat" /\ ~Truthy(e.OPENCLAW_GATEWAY_TOKEN) ->
           [kind |-> "respond", resp |-> Json(500, "Server configuration error"),
            log |-> << <<"error", "[Chat] OPENCLAW_GATEWAY_TOKEN secret is not set">> >>,
            pair |-> FALSE]
      [] name = "notFound" ->
           [kind |-> "respond", resp |-> Json(404, "Not found"),
            log |-> << <<"log", "[404] Unmatched route: ", r.method, r.path>> >>,
            pair |-> FALSE]
      [] OTHER ->
           [kind |-> "fetch", resp |-> NoResp, log |-> <<>>, pair |-> (name = "root")]

\* Variant: the chat handler does not check the gateway token.
HandlerStart_NoTokenCheck(name, e, r) ==
    CASE name = "root" /\ r.upgrade # "websocket" ->
           [kind |-> "respond",
            resp |-> [status |-> 302, body |-> <<>>, webSocket |-> Undef, location |-> "/app"],
            log |-> <<>>, pair |-> FALSE]
      [] name = "notFound" ->
           [kind |-> "respond", resp |-> Json(404, "Not found"),
            log |-> << <<"log", "[404] Unmatched route: ", r.method, r.path>> >>,
            pair |-> FALSE]
      [] OTHER ->
           [kind |-> "fetch", resp |-> NoResp, log |-> <<>>, pair |-> (name = "root")]

\* Variant: every handler that fetches creates a WebSocketPair when the
\* request asks for an upgrade.
HandlerStart_PairOnAnyUpgrade(name, e, r) ==
    CASE name = "chat" /\ ~Truthy(e.OPENCLAW_GATEWAY_TOKEN) ->
           [kind |-> "respond", resp |-> Json(500, "Server configuration error"),
            log |-> << <<"error", "[Chat] OPENCLAW_GATEWAY_TOKEN secret is not set">> >>,
            pair |-> FALSE]
      [] name = "root" /\ r.upgrade # "websocket" ->
           [kind |-> "respond",
            resp |-> [status |-> 302, body |-> <<>>, webSocket |-> Undef, location |-> "/app"],
            log |-> <<>>, pair |-> FALSE]
      [] name = "notFound" ->
           [kind |-> "respond", resp |-> Json(404, "Not found"),
            log |-> << <<"log", "[404] Unmatched route: ", r.method, r.path>> >>,
            pair |-> FALSE]
      [] OTHER ->
           [kind |-> "fetch", resp |-> NoResp, log |-> <<>>,
            pair |-> (r.upgrade = "websocket")]

\* A handler up to its await of VPC_SERVICE.fetch: it either returns a
\* response at once or issues the fetch (pair: it first created a
\* WebSocketPair).
HandlerStart(name, e, r) ==
    CASE name = "chat" /\ ~Truthy(e.OPENCLAW_GATEWAY_TOKEN) ->
           [kind |-> "respond", resp |-> Json(500, "Server configuration error"),
            log |-> << <<"error", "[Chat] OPENCLAW_GATEWAY_TOKEN secret is not set">> >>,
            pair |-> FALSE]
      [] name = "root" /\ r.upgrade # "websocket" ->
           [kind |-> "respond",
            resp |-> [status |-> 302, body |-> <<>>, webSocket |-> Undef, location |-> "/app"],
            log |-> <<>>, pair |-> FALSE]
      [] name = "notFound" ->
           [kind |-> "respond", resp |-> Json(404, "Not found"),
            log |-> << <<"log", "[404] Unmatched route: ", r.method, r.path>> >>,
            pair |-> FALSE]
      [] OTHER ->
           [kind |-> "fetch", resp |-> NoResp, log |-> <<>>, pair |-> (name = "root")]

\* Variant: the sockets are accepted before the response is inspected.
HandlerResolved_AcceptFirst(name, r) ==
    IF name = "root"
    THEN IF r.webSocket = Undef
         THEN [resp |-> Plain(502, <<"Failed to connect to OpenClaw WebSocket">>),
               log |-> << <<"error", "[WS] Failed to establish WebSocket connection to OpenClaw">> >>,
               accept |-> TRUE]
         ELSE [resp |-> [status |-> 101, body |-> <<>>, webSocket |-> "client",
                         location |-> Undef],
               log |-> <<>>, accept |-> TRUE]
    ELSE [resp |-> r, log |-> <<>>, accept |-> FALSE]

\* Variant: a backend answer that is not 2xx is turned into an error.
HandlerResolved_ErrorOnNon2xx(name, r) ==
    IF name = "root"
    THEN IF r.webSocket = Undef
         THEN [resp |-> Plain(502, <<"Failed to connect to OpenClaw WebSocket">>),
               log |-> << <<"error", "[WS] Failed to establish WebSocket connection to OpenClaw">> >>,
               accept |-> FALSE]
         ELSE [resp |-> [status |-> 101, body |-> <<>>, webSocket |-> "client",
                         location |-> Undef],
               log |-> <<>>, accept |-> TRUE]
    ELSE IF r.status >= 200 /\ r.status < 300
         THEN [resp |-> r, log |-> <<>>, accept |-> FALSE]
         ELSE [resp |-> Json(500, "Failed to invoke tool"), log |-> <<>>, accept |-> FALSE]

\* The handler after the fetch resolved with response r.
\* accept: server.accept(), openclawWs.accept() and the listeners follow.
HandlerResolved(name, r) ==
    IF name = "root"
    THEN IF r.webSocket = Undef
         THEN [resp |-> Plain(502, <<"Failed to connect to OpenClaw WebSocket">>),
               log |-> << <<"error", "[WS] Failed to establish WebSocket connection to OpenClaw">> >>,
               accept |-> FALSE]
         ELSE [resp |-> [status |-> 101, body |-> <<>>, webSocket |-> "client",
                         location |-> Undef],
               log |-> <<>>, accept |-> TRUE]
    ELSE [resp |-> r, log |-> <<>>, accept |-> FALSE]

\* Variant: the root handler has no catch of its own, app.onError answers.
HandlerRejected_RootUncaught(name, err) ==
    CASE name = "chat" ->
           [resp |-> Json(500, "Failed to process chat request"),
            log |-> << <<"error", "[Chat] Error:", err>> >>, accept |-> FALSE]
      [] name = "tools" ->
           [resp |-> Json(500, "Failed to invoke tool"),
            log |-> << <<"error", "[Tools] Error:", err>> >>, accept |-> FALSE]
      [] OTHER ->
           [resp |-> Json(500, "Internal server error"),
            log |-> << <<"error", "[Error] Unhandled: ", err>> >>, accept |-> FALSE]

\* The handler, or app.onError, after the fetch rejected with error err.
HandlerRejected(name, err) ==
    CASE name = "chat" ->
           [resp |-> Json(500, "Failed to process chat request"),
            log |-> << <<"error", "[Chat] Error:", err>> >>, accept |-> FALSE]
      [] name = "tools" ->
           [resp |-> Json(500, "Failed to invoke tool"),
            log |-> << <<"error", "[Tools] Error:", err>> >>, accept |-> FALSE]
      [] name = "root" ->
           [resp |-> Plain(502, <<"WebSocket proxy error: ", err>>),
            log |-> << <<"error", "[WS] WebSocket proxy error:", err>> >>, accept |-> FALSE]
      [] OTHER ->
           [resp |-> Json(500, "Internal server error"),
            log |-> << <<"error", "[Error] Unhandled: ", err>> >>, accept |-> FALSE]

\* next(): the first matching route handler runs up to its fetch.
Dispatch ==
    /\ pc = "route"
    /\ nextCalls' = nextCalls + 1
    /\ LET name == MatchRoute(req.method, req.path)
           h == HandlerStart(name, env, req)
       IN
        /\ route' = name
        /\ log' = log \o h.log
        /\ resp' = h.resp
        /\ pairs' = IF h.pair THEN pairs + 1 ELSE pairs
        /\ server' = IF h.pair THEN "pending" ELSE server
        /\ IF h.kind = "fetch"
           THEN /\ fetches' = Append(fetches, Outbound(name, env, req))
                /\ pc' = "fetch"
           ELSE /\ pc' = "done"
                /\ UNCHANGED fetches
    /\ UNCHANGED <<env, cur, saved, req, authVia, verifyCalls, upstream, listeners, openclawWs, sent, closed, events, calls>>

\* VPC_SERVICE.fetch resolves with a response of the backend.
FetchResolve ==
    /\ pc = "fetch"
    /\ \E r \in BackendResponses(fetches[Len(fetches)]) :
        LET h == HandlerResolved(route, r) IN
        /\ upstream' = [kind |-> "response", response |-> r, error |-> ""]
        /\ resp' = h.resp
        /\ log' = log \o h.log
        /\ server' = IF h.accept THEN "open" ELSE server
        /\ openclawWs' = IF h.accept THEN "open" ELSE openclawWs
        /\ listeners' = h.accept
    /\ pc' = "done"
    /\ UNCHANGED <<env, cur, saved, req, route, authVia, nextCalls, verifyCalls, fetches, pairs, sent, closed, events, calls>>

\* Variant: the rejection of a handler without a catch reaches the catch of
\* accessAuth through next().
FetchReject_IntoAuthCatch ==
    /\ pc = "fetch"
    /\ \E err \in FetchErrors :
        LET h == HandlerRejected(route, err) IN
        /\ upstream' = [kind |-> "error", response |-> NoResp, error |-> err]
        /\ resp' = IF authVia = "jwt" /\ route \notin {"chat", "tools", "root"}
                   THEN Json(403, "Invalid or expired token")
                   ELSE h.resp
        /\ log' = log \o h.log
    /\ pc' = "done"
    /\ UNCHANGED <<env, cur, saved, req, route, authVia, nextCalls, verifyCalls, fetches, pairs, wsVars>>

\* Variant: a rejected fetch is issued a second time before the handler
\* gives up.
FetchReject_Retry ==
    /\ pc = "fetch"
    /\ \E err \in FetchErrors :
        LET h == HandlerRejected(route, err) IN
        IF Len(fetches) < 2
        THEN /\ fetches' = Append(fetches, fetches[Len(fetches)])
             /\ pc' = "fetch"
             /\ UNCHANGED <<upstream, resp, log>>
        ELSE /\ upstream' = [kind |-> "error", response |-> NoResp, error |-> err]
             /\ resp' = h.resp
             /\ log' = log \o h.log
             /\ pc' = "done"
             /\ UNCHANGED fetches
    /\ UNCHANGED <<env, cur, saved, req, route, authVia, nextCalls, verifyCalls, pairs, wsVars>>

\* VPC_SERVICE.fetch rejects: the backend could not be reached.
FetchReject ==
    /\ pc = "fetch"
    /\ \E err \in FetchErrors :
        LET h == HandlerRejected(route, err) IN
        /\ upstream' = [kind |-> "error", response |-> NoResp, error |-> err]
        /\ resp' = h.resp
        /\ log' = log \o h.log
    /\ pc' = "done"
    /\ UNCHANGED <<env, cur, saved, req, route, authVia, nextCalls, verifyCalls, fetches, pairs, wsVars>>

\* The runtime sends the response to the caller; the request is over.
Deliver ==
    /\ pc = "done"
    /\ pc' = "delivered"
    /\ req' = NoReq
    /\ UNCHANGED <<env, cur, saved, resp, route, authVia, nextCalls, verifyCalls, fetches, upstream, log, pairs, wsVars>>

\* --------------------------------------------------- bridge listeners
SocketState(x) == IF x = "server" THEN server ELSE openclawWs

\* Variant: the message listener sends on the socket the message came from.
MessageTarget_Self(x) == x

\* The socket each listener of socket x acts on (part_000 153-186).
MessageTarget(x) == IF x = "server" THEN "openclawWs" ELSE "server"
CloseTarget(x) == IF x = "server" THEN "openclawWs" ELSE "server"

\* The arguments the close listener of x passes to close().
CloseArgs(x, code, reason) == <<code, reason>>

\* Variant: the error listener reports the abnormal closure code.
ErrorArgs_Abnormal(x) == <<1006, "">>

\* The arguments the error listener of x passes to close().
ErrorArgs(x) == IF x = "server" THEN <<1011, "Client error">> ELSE <<1011, "Server error">>

ForwardLog(x) ==
    IF x = "server" THEN "[WS] Error forwarding to OpenClaw:"
    ELSE "[WS] Error forwarding to client:"

Event(x, type, data, code, reason) ==
    [sock |-> x, type |-> type, data |-> data, code |-> code, reason |-> reason,
     server |-> server, openclawWs |-> openclawWs]

\* A call op(args) issued on socket y, with the state y is in at the call.
Call(op, y, args) == [op |-> op, on |-> y, args |-> args, state |-> SocketState(y)]

\* close(args) is called on socket y while socket x moves to state st.
CloseFrom(x, st, y, args) ==
    LET ok == CloseOk(SocketState(y), args[1])
        after == [z \in Sockets |->
                    IF z = x THEN st
                    ELSE IF z = y /\ ok THEN "closing"
                    ELSE SocketState(z)]
    IN
    /\ server' = after["server"]
    /\ openclawWs' = after["openclawWs"]
    /\ closed' = IF ok THEN [closed EXCEPT ![y] = Append(@, args)] ELSE closed
    /\ calls' = Append(calls, Call("close", y, args))

\* Variant: the newest message goes out ahead of the ones sent before it.
OnMessage_NewestFirst(x) ==
    /\ listeners
    /\ Len(events) < MaxEvents
    /\ SocketState(x) \in {"open", "closing"}
    /\ \E data \in MessageData :
        LET y == MessageTarget(x) IN
        /\ events' = Append(events, Event(x, "message", data, 0, ""))
        /\ calls' = Append(calls, Call("send", y, <<data>>))
        /\ IF SendOk(SocketState(y))
           THEN /\ sent' = [sent EXCEPT ![y] = <<data>> \o @]
                /\ UNCHANGED log
           ELSE /\ log' = Append(log, <<"error", ForwardLog(x), "send failed">>)
                /\ UNCHANGED sent
    /\ UNCHANGED <<env, cur, saved, req, pc, resp, route, authVia, nextCalls, verifyCalls,
                   fetches, upstream, pairs, listeners, server, openclawWs, closed>>

\* Variant: a throwing send tears the session down, the listener closes
\* the socket the message came from.
OnMessage_CloseOnFailure(x) ==
    /\ listeners
    /\ Len(events) < MaxEvents
    /\ SocketState(x) \in {"open", "closing"}
    /\ \E data \in MessageData :
        LET y == MessageTarget(x) IN
        /\ events' = Append(events, Event(x, "message", data, 0, ""))
        /\ IF SendOk(SocketState(y))
           THEN /\ sent' = [sent EXCEPT ![y] = Append(@, data)]
                /\ calls' = Append(calls, Call("send", y, <<data>>))
                /\ UNCHANGED <<log, server, openclawWs, closed>>
           ELSE /\ log' = Append(log, <<"error", ForwardLog(x), "send failed">>)
                /\ CloseFrom(y, SocketState(y), x, <<1011, "Forward error">>)
                /\ UNCHANGED sent
    /\ UNCHANGED <<env, cur, saved, req, pc, resp, route, authVia, nextCalls, verifyCalls,
                   fetches, upstream, pairs, listeners>>

\* A message event on socket x: the listener sends event.data to the
\* other socket; a throwing send is logged.
OnMessage(x) ==
    /\ listeners
    /\ Len(events) < MaxEvents
    /\ SocketState(x) \in {"open", "closing"}
    /\ \E data \in MessageData :
        LET y == MessageTarget(x) IN
        /\ events' = Append(events, Event(x, "message", data, 0, ""))
        /\ calls' = Append(calls, Call("send", y, <<data>>))
        /\ IF SendOk(SocketState(y))
           THEN /\ sent' = [sent EXCEPT ![y] = Append(@, data)]
                /\ UNCHANGED log
           ELSE /\ log' = Append(log, <<"error", ForwardLog(x), "send failed">>)
                /\ UNCHANGED sent
    /\ UNCHANGED <<env, cur, saved, req, pc, resp, route, authVia, nextCalls, verifyCalls,
                   fetches, upstream, pairs, listeners, server, openclawWs, closed>>

\* The close events socket x can get: any while it is open, the echo of
\* the close it sent while closing, abnormal closure after it failed.
CloseEventsFor(x) ==
    CASE SocketState(x) = "open" -> CloseEvents
      [] SocketState(x) = "closing" -> {closed[x][Len(closed[x])]}
      [] SocketState(x) = "failed" -> { <<1006, "">> }
      [] OTHER -> {}

\* A close event on socket x: the listener calls close(event.code,
\* event.reason) on the other socket and swallows what it throws.
OnClose(x) ==
    /\ listeners
    /\ Len(events) < MaxEvents
    /\ \E ev \in CloseEventsFor(x) :
        /\ events' = Append(events, Event(x, "close", Undef, ev[1], ev[2]))
        /\ CloseFrom(x, "closed", CloseTarget(x), CloseArgs(x, ev[1], ev[2]))
    /\ UNCHANGED <<env, cur, saved, httpVars, listeners, sent>>

\* An error event on socket x: the listener closes the other socket with
\* 1011 and swallows what close throws.
OnError(x) ==
    /\ listeners
    /\ Len(events) < MaxEvents
    /\ SocketState(x) \in {"open", "closing"}
    /\ events' = Append(events, Event(x, "error", Undef, 0, ""))
    /\ CloseFrom(x, "failed", CloseTarget(x), ErrorArgs(x))
    /\ UNCHANGED <<env, cur, saved, httpVars, listeners, sent>>

Next ==
    \/ Receive
    \/ AuthCheck
    \/ AuthVerify
    \/ Dispatch
    \/ FetchResolve
    \/ FetchReject
    \/ Deliver
    \/ \E x \in Sockets : OnMessage(x)
    \/ \E x \in Sockets : OnClose(x)
    \/ \E x \in Sockets : OnError(x)

Spec == Init /\ [][Next]_vars

\* The steps the worker itself takes are taken: the middleware and the
\* handler run to their next await, an awaited fetch settles one way or the
\* other, the response is sent. Events on the sockets come from the peers
\* and nothing obliges a peer to produce one.
LiveSpec ==
    /\ Spec
    /\ WF_vars(AuthCheck)
    /\ WF_vars(AuthVerify)
    /\ WF_vars(Dispatch)
    /\ WF_vars(FetchResolve \/ FetchReject)
    /\ WF_vars(Deliver)

\* ------------------------------------------------- concurrent requests
\* One isolate serves several requests: between two awaits, and between two
\* socket events, the event loop may run a step of another request. Every
\* invocation has its own context and its own closure; the module keeps no
\* variable of its own besides app and c.env.

\* Variant: the sockets are kept in variables of the module, the
\* invocations share them.
Switch_SharedSockets(i) ==
    /\ i # cur
    /\ saved[i].pc # "idle" \/ pc # "idle"
    /\ saved' = [saved EXCEPT ![cur] = RequestRecord]
    /\ cur' = i
    /\ req' = saved[i].req
    /\ pc' = saved[i].pc
    /\ resp' = saved[i].resp
    /\ route' = saved[i].route
    /\ authVia' = saved[i].authVia
    /\ nextCalls' = saved[i].nextCalls
    /\ verifyCalls' = saved[i].verifyCalls
    /\ fetches' = saved[i].fetches
    /\ upstream' = saved[i].upstream
    /\ log' = saved[i].log
    /\ pairs' = saved[i].pairs
    /\ events' = saved[i].events
    /\ calls' = saved[i].calls
    /\ UNCHANGED <<env, listeners, server, openclawWs, sent, closed>>

\* The event loop turns to request i: the state of the request it leaves
\* stays with that request.
Switch(i) ==
    /\ i # cur
    /\ saved[i].pc # "idle" \/ pc # "idle"
    /\ saved' = [saved EXCEPT ![cur] = RequestRecord]
    /\ cur' = i
    /\ req' = saved[i].req
    /\ pc' = saved[i].pc
    /\ resp' = saved[i].resp
    /\ route' = saved[i].route
    /\ authVia' = saved[i].authVia
    /\ nextCalls' = saved[i].nextCalls
    /\ verifyCalls' = saved[i].verifyCalls
    /\ fetches' = saved[i].fetches
    /\ upstream' = saved[i].upstream
    /\ log' = saved[i].log
    /\ pairs' = saved[i].pairs
    /\ listeners' = saved[i].listeners
    /\ server' = saved[i].server
    /\ openclawWs' = saved[i].openclawWs
    /\ sent' = saved[i].sent
    /\ closed' = saved[i].closed
    /\ events' = saved[i].events
    /\ calls' = saved[i].calls
    /\ UNCHANGED env

\* The requests of the concurrent runs: two upgrade attempts, one with the
\* service token and one with a bearer assertion, a tool call with an
\* expired assertion and a page load without credentials.
ConcRequests ==
    { [method |-> "GET", path |-> <<>>, clientId |-> "id-1", clientSecret |-> "secret-1",
       jwt |-> Undef, upgrade |-> "websocket",
       origin |-> Undef, body |-> Undef],
      [method |-> "GET", path |-> <<>>, clientId |-> Undef, clientSecret |-> Undef,
       jwt |-> "jwt-valid", upgrade |-> "websocket",
       origin |-> Undef, body |-> Undef],
      [method |-> "POST", path |-> <<"tools", "invoke">>, clientId |-> Undef,
       clientSecret |-> Undef, jwt |-> "jwt-expired", upgrade |-> Undef,
       origin |-> "https://caller.example", body |-> "body-a"],
      [method |-> "GET", path |-> <<"app", "chat">>, clientId |-> Undef,
       clientSecret |-> Undef, jwt |-> Undef, upgrade |-> Undef,
       origin |-> Undef, body |-> Undef] }

ConcReceive ==
    /\ pc = "idle"
    /\ req' \in ConcRequests
    /\ pc' = "auth"
    /\ UNCHANGED <<env, cur, saved, resp, route, authVia, nextCalls, verifyCalls, fetches, upstream, log, pairs, wsVars>>

ConcInit ==
    /\ Init
    /\ \A b \in DOMAIN env : Truthy(env[b])

\* The socket events of all sessions together are capped.
MaxConcEvents == 2

EventsLeft ==
    LET Others(i) == IF i = cur THEN 0 ELSE Len(saved[i].events)
        RECURSIVE Sum(_)
        Sum(n) == IF n = 0 THEN 0 ELSE Others(n) + Sum(n - 1)
    IN Len(events) + Sum(MaxRequests) < MaxConcEvents

ConcNext ==
    \/ ConcReceive
    \/ AuthCheck
    \/ AuthVerify
    \/ Dispatch
    \/ FetchResolve
    \/ FetchReject
    \/ Deliver
    \/ \E x \in Sockets : EventsLeft /\ OnMessage(x)
    \/ \E x \in Sockets : EventsLeft /\ OnClose(x)
    \/ \E x \in Sockets : EventsLeft /\ OnError(x)
    \/ \E i \in RequestIds : Switch(i)

ConcSpec == ConcInit /\ [][ConcNext]_vars

\* ================================================================ claims
\* Vocabulary of the claims, written without the operators of the model.
Present(h) == h # Undef /\ h # ""

\* A request is in hand: received and not yet answered to the caller.
InHand == pc \in {"auth", "verify", "route", "fetch", "done"}

Configured == Present(env.CF_ACCESS_TEAM_NAME) /\ Present(env.CF_ACCESS_AUD)

ErrorBody(text) == <<"{\"error\":\"", text, "\"}">>

ErrorResponse(status, text) ==
    resp = [status |-> status, body |-> ErrorBody(text), webSocket |-> Undef,
            location |-> Undef]

BothServiceHeaders == Present(req.clientId) /\ Present(req.clientSecret)

MatchesConfiguredPair ==
    /\ Present(env.CF_ACCESS_CLIENT_ID)
    /\ Present(env.CF_ACCESS_CLIENT_SECRET)
    /\ req.clientId = env.CF_ACCESS_CLIENT_ID
    /\ req.clientSecret = env.CF_ACCESS_CLIENT_SECRET

NoHandlerRan ==
    /\ nextCalls = 0
    /\ route = Undef
    /\ fetches = <<>>
    /\ pairs = 0
    /\ server = "none"
    /\ openclawWs = "none"
    /\ ~listeners

\* C1: on every route and method accessAuth runs before any route handler,
\* and when it does not authenticate the request (403, or the configuration
\* 500) no handler runs: no backend request, no socket pair, no accepted
\* socket, no redirect and no 404.
C1_VerifierGatesEveryRoute ==
    /\ pc \in {"idle", "auth", "verify"} => NoHandlerRan
    /\ nextCalls <= 1
    /\ authVia = Undef =>
        /\ NoHandlerRan
        /\ resp.status \notin {101, 302, 404}
        /\ pc \in {"done", "delivered"} => resp.status \in {403, 500}

C1_Witness ==
    /\ pc = "done"
    /\ authVia = Undef
    /\ resp.status = 403
    /\ req.method = "GET" /\ req.path = <<>> /\ req.upgrade = "websocket"

\* C2: when the team domain or the audience is not configured, every request
\* is answered 500 {"error":"Server configuration error"} whatever its
\* credentials, and neither jwtVerify nor a backend request is attempted.
C2_ConfigFaultIs500 ==
    ~Configured =>
        /\ pc \notin {"verify", "route", "fetch"}
        /\ verifyCalls = <<>>
        /\ NoHandlerRan
        /\ pc \in {"done", "delivered"} => ErrorResponse(500, "Server configuration error")

C2_Witness ==
    /\ pc = "done"
    /\ Present(env.CF_ACCESS_TEAM_NAME) /\ ~Present(env.CF_ACCESS_AUD)
    /\ BothServiceHeaders /\ MatchesConfiguredPair
    /\ req.jwt = "jwt-valid"
    /\ resp.status = 500

\* C3: with team domain and audience configured, a request whose two
\* service-token headers are present and equal the configured pair is
\* authenticated: the route handler runs exactly once, whatever the
\* bearer header holds, and jwtVerify is never called.
C3_ServiceTokenAuthenticates ==
    (InHand /\ Configured /\ BothServiceHeaders /\ MatchesConfiguredPair) =>
        /\ pc # "verify"
        /\ verifyCalls = <<>>
        /\ pc \in {"route", "fetch", "done"} => authVia = "service-token"
        /\ pc \in {"fetch", "done"} => nextCalls = 1 /\ route # Undef

C3_Witness ==
    /\ pc = "done"
    /\ Configured /\ BothServiceHeaders /\ MatchesConfiguredPair
    /\ req.jwt = "jwt-badsig"
    /\ nextCalls = 1

\* C4 as stated: whenever both service-token headers are present and do not
\* match a configured pair, the answer is 403 {"error":"Invalid service
\* token"} and the bearer path is not evaluated.
C4_Original ==
    (pc = "done" /\ BothServiceHeaders /\ ~MatchesConfiguredPair) =>
        /\ ErrorResponse(403, "Invalid service token")
        /\ verifyCalls = <<>>
        /\ NoHandlerRan

\* C4 amended: with team domain and audience configured, whenever both
\* service-token headers are present and do not match a configured pair
\* (a value differs, or no pair is configured), the answer is 403
\* {"error":"Invalid service token"}, also with a valid bearer assertion,
\* and the bearer path (key-set fetch, jwtVerify) is never evaluated.
C4_ServiceTokenPrecedence ==
    (InHand /\ Configured /\ BothServiceHeaders /\ ~MatchesConfiguredPair) =>
        /\ pc \in {"auth", "done"}
        /\ verifyCalls = <<>>
        /\ NoHandlerRan
        /\ pc = "done" => ErrorResponse(403, "Invalid service token")

C4_Witness ==
    /\ pc = "done"
    /\ Configured
    /\ ~Present(env.CF_ACCESS_CLIENT_ID)
    /\ BothServiceHeaders
    /\ req.jwt = "jwt-valid"
    /\ resp.status = 403

\* C5: with team domain and audience configured, a request with neither
\* service-token header nor bearer header is answered 403 with the
\* missing-credential body on every route, and no handler runs.
C5_MissingCredential ==
    (InHand /\ Configured /\ ~Present(req.clientId) /\ ~Present(req.clientSecret)
        /\ ~Present(req.jwt)) =>
        /\ pc \in {"auth", "done"}
        /\ verifyCalls = <<>>
        /\ NoHandlerRan
        /\ pc = "done" =>
            ErrorResponse(403, "Missing required CF Access JWT or service token")

C5_Witness ==
    /\ pc = "done"
    /\ Configured
    /\ req.clientId = Undef /\ req.clientSecret = Undef /\ req.jwt = Undef
    /\ req.path = <<"tools", "invoke">> /\ req.method = "POST"
    /\ resp.status = 403

\* The bearer-assertion path of a request: not both service-token headers,
\* and the bearer header present.
BearerPath == ~BothServiceHeaders /\ Present(req.jwt)

\* The token is signed by the key Cloudflare Access publishes for the team
\* and its claims fit the configuration.
TokenFits ==
    /\ req.jwt \in DOMAIN TokenClaims
    /\ TokenClaims[req.jwt].sig = "access-key"
    /\ TokenClaims[req.jwt].iss = <<"https://", env.CF_ACCESS_TEAM_NAME>>
    /\ TokenClaims[req.jwt].aud = env.CF_ACCESS_AUD
    /\ TokenClaims[req.jwt].time = "within"

\* C6 as stated: on the bearer path the request is authenticated iff the
\* token has a valid signature, the issuer and audience of the
\* configuration and a current time within its bounds; every other token is
\* answered 403 {"error":"Invalid or expired token"}.
C6_Original ==
    (pc = "done" /\ BearerPath) =>
        IF TokenFits
        THEN nextCalls = 1 /\ authVia = "jwt"
        ELSE NoHandlerRan /\ ErrorResponse(403, "Invalid or expired token")

\* C6 amended: with team domain and audience configured, on the bearer path
\* the request is authenticated iff the key set of
\* https://{team domain}/cdn-cgi/access/certs was fetched and the token has
\* a valid signature under it, issuer https://{team domain}, the configured
\* audience and passes the nbf / exp check; every other token, and every
\* token when the key set cannot be fetched, is answered 403
\* {"error":"Invalid or expired token"}.
C6_BearerAssertion ==
    (InHand /\ Configured /\ BearerPath /\ pc \notin {"auth", "verify"}) =>
        /\ Len(verifyCalls) = 1
        /\ verifyCalls[1].url =
              <<"https://", env.CF_ACCESS_TEAM_NAME, "/cdn-cgi/access/certs">>
        /\ IF TokenFits /\ verifyCalls[1].keys # {}
           THEN /\ authVia = "jwt"
                /\ pc \in {"fetch", "done"} => nextCalls = 1
           ELSE /\ pc = "done"
                /\ NoHandlerRan
                /\ ErrorResponse(403, "Invalid or expired token")

C6_Witness ==
    /\ pc = "done"
    /\ Configured /\ BearerPath
    /\ req.jwt = "jwt-valid"
    /\ req.clientId = "id-1" /\ req.clientSecret = Undef
    /\ authVia = "jwt"
    /\ nextCalls = 1

\* --------------------------------------------------------- bridge claims
OtherSocket(x) == IF x = "server" THEN "openclawWs" ELSE "server"

\* The session was established (both sockets accepted and still open) when
\* event e was dispatched.
Established(e) == e.server = "open" /\ e.openclawWs = "open"

\* The data of the messages socket x received while the session was
\* established, oldest first.
ReceivedOn(x) ==
    LET sel == SelectSeq(events,
                  LAMBDA e : e.sock = x /\ e.type = "message" /\ Established(e))
    IN [i \in 1..Len(sel) |-> sel[i].data]

\* C7: in an established bridge session every message received on the
\* client-facing socket is sent unchanged to the backend socket, and every
\* message received on the backend socket is sent unchanged to the
\* client-facing socket.
C7_MessagesRelayedVerbatim ==
    \A x \in Sockets : sent[OtherSocket(x)] = ReceivedOn(x)

C7_Witness ==
    /\ sent["openclawWs"] = <<"frame-a">>
    /\ sent["server"] = <<"frame-b">>
    /\ resp.status = 101

LastEvent == events[Len(events)]

\* C8: when a socket of an established session gets a close event with code
\* c and reason r, close(c, r) takes effect on the other socket, for every
\* code a close event can carry, and both sockets end closed.
C8_ClosePropagated ==
    (events # <<>> /\ LastEvent.type = "close" /\ Established(LastEvent)) =>
        /\ closed[OtherSocket(LastEvent.sock)] = << <<LastEvent.code, LastEvent.reason>> >>
        /\ server # "open"
        /\ openclawWs # "open"

\* What does hold: the close is propagated when close() accepts the code.
C8_ValidCodePropagated ==
    (events # <<>> /\ LastEvent.type = "close" /\ Established(LastEvent)
        /\ LastEvent.code \in {1000, 4000}) =>
        /\ closed[OtherSocket(LastEvent.sock)] = << <<LastEvent.code, LastEvent.reason>> >>
        /\ server # "open"
        /\ openclawWs # "open"

\* C9: for an authenticated GET / with Upgrade: websocket, when the
\* backend's response carries no socket the caller gets 502, the
\* client-facing socket is never accepted, no listener is registered and no
\* 101 is returned.
C9_NoSocketIs502 ==
    (route = "root" /\ upstream.kind = "response"
        /\ upstream.response.webSocket = Undef) =>
        /\ resp.status = 502
        /\ server = "pending"
        /\ openclawWs = "none"
        /\ ~listeners
        /\ events = <<>>

C9_Witness ==
    /\ pc = "done"
    /\ req.method = "GET" /\ req.path = <<>> /\ req.upgrade = "websocket"
    /\ upstream.kind = "response"
    /\ upstream.response.status = 200
    /\ resp.status = 502

\* C10: for an authenticated POST /tools/invoke the response returned to
\* the caller is exactly the response the backend returned, status and body,
\* also when it is not 2xx.
C10_ToolsPassThrough ==
    (route = "tools" /\ upstream.kind = "response") =>
        /\ resp = upstream.response
        /\ Len(fetches) = 1

C10_Witness ==
    /\ pc = "done"
    /\ req.method = "POST" /\ req.path = <<"tools", "invoke">>
    /\ upstream.kind = "response"
    /\ upstream.response.status = 500
    /\ resp.status = 500
    /\ resp.body = <<"payload-b">>

\* C11: a bridge session is closed once, and after it is closed no further
\* message, close or error event is processed: no send() and no second
\* close() is issued on a socket that is no longer open, under every
\* interleaving of the events of the two sockets.
C11_NoCallAfterClosed ==
    /\ \A i \in 1..Len(events) : Established(events[i])
    /\ \A i \in 1..Len(calls) : calls[i].state = "open"

\* C12: an error event on either socket closes the other socket with code
\* 1011 and a short fixed reason, and leaves neither socket of the session
\* open.
C12_ErrorClosesPeer ==
    (events # <<>> /\ LastEvent.type = "error") =>
        /\ server # "open"
        /\ openclawWs # "open"
        /\ Established(LastEvent) =>
            closed[OtherSocket(LastEvent.sock)] =
                << <<1011, IF LastEvent.sock = "server"
                           THEN "Client error" ELSE "Server error">> >>

C12_Witness ==
    /\ events # <<>>
    /\ LastEvent.type = "error"
    /\ LastEvent.sock = "openclawWs"
    /\ Established(LastEvent)
    /\ server = "closing"
    /\ openclawWs = "failed"
    /\ closed["server"] = << <<1011, "Server error">> >>

\* C13: no response body contains the text of an internal error (backend
\* fetch failure, token verification failure, socket setup failure): the
\* text that console.error logged is in no chunk of the body, on every route
\* including the WebSocket upgrade.
C13_NoErrorTextInBody ==
    \A i \in 1..Len(resp.body) : \A j \in 1..Len(log) :
        log[j][1] = "error" => resp.body[i] # log[j][Len(log[j])]

\* --------------------------------------------------------- route claims
\* accessAuth authenticated the request in hand.
Authenticated == InHand /\ authVia # Undef

StartsWith(path, seg) == Len(path) >= 1 /\ path[1] = seg

\* The request matches a row of the routing table of the specification.
InRoutingTable ==
    \/ req.method = "POST" /\ req.path = <<"v1", "chat", "completions">>
    \/ req.method = "POST" /\ req.path = <<"tools", "invoke">>
    \/ req.method = "GET" /\ StartsWith(req.path, "app")
    \/ req.method = "GET" /\ StartsWith(req.path, "assets")
    \/ req.method = "GET" /\ req.path = <<>>

C15_RootRedirects ==
    (Authenticated /\ req.method = "GET" /\ req.path = <<>>
        /\ ~Present(req.upgrade)) =>
        /\ pc \in {"route", "done"}
        /\ fetches = <<>>
        /\ pairs = 0
        /\ server = "none"
        /\ pc = "done" =>
            /\ resp.status >= 300 /\ resp.status <= 399
            /\ resp.location = "/app"

C15_Witness ==
    /\ pc = "done"
    /\ authVia = "service-token"
    /\ req.method = "GET" /\ req.path = <<>> /\ req.upgrade = Undef
    /\ resp.status = 302
    /\ resp.location = "/app"

\* ------------------------------------------- unconfigured service token
PairConfigured ==
    Present(env.CF_ACCESS_CLIENT_ID) /\ Present(env.CF_ACCESS_CLIENT_SECRET)

\* The result the bearer-assertion header alone gives.
BearerResult ==
    IF ~Present(req.jwt)
    THEN /\ NoHandlerRan
         /\ ErrorResponse(403, "Missing required CF Access JWT or service token")
    ELSE IF TokenFits /\ verifyCalls # <<>> /\ verifyCalls[1].keys # {}
    THEN authVia = "jwt" /\ nextCalls = 1
    ELSE NoHandlerRan /\ ErrorResponse(403, "Invalid or expired token")

\* C16 as stated: when the service-token pair is not configured, the result
\* of a request is determined by its bearer-assertion header alone,
\* whatever service-token headers it carries.
C16_Original ==
    (pc = "done" /\ Configured /\ ~PairConfigured) => BearerResult

\* C16 amended: with team domain and audience configured and the
\* service-token pair not configured, no request is authenticated by a
\* service token; a request carrying both service-token headers is answered
\* 403 {"error":"Invalid service token"} without its bearer assertion being
\* evaluated, and a request not carrying both is decided by its
\* bearer-assertion header alone.
C16_PairNotConfigured ==
    (pc = "done" /\ Configured /\ ~PairConfigured) =>
        /\ authVia # "service-token"
        /\ IF BothServiceHeaders
           THEN /\ NoHandlerRan
                /\ verifyCalls = <<>>
                /\ ErrorResponse(403, "Invalid service token")
           ELSE BearerResult

C16_Witness ==
    /\ pc = "done"
    /\ Configured
    /\ Present(env.CF_ACCESS_CLIENT_ID) /\ ~Present(env.CF_ACCESS_CLIENT_SECRET)
    /\ req.clientId = env.CF_ACCESS_CLIENT_ID /\ Present(req.clientSecret)
    /\ req.jwt = "jwt-valid"
    /\ verifyCalls = <<>>
    /\ ErrorResponse(403, "Invalid service token")

\* ---------------------------------------------------- forwarding claims
ChatRequest ==
    req.method = "POST" /\ req.path = <<"v1", "chat", "completions">>

\* C17: for an authenticated POST /v1/chat/completions, with the upstream
\* bearer token not configured the response is 500 and no backend request
\* is issued; with it configured exactly one backend request is issued, it
\* carries Authorization: Bearer <upstream token>, and the response of the
\* backend is the response returned to the caller.
C17_ChatNeedsUpstreamToken ==
    (Authenticated /\ ChatRequest /\ pc \in {"fetch", "done"}) =>
        IF ~Present(env.OPENCLAW_GATEWAY_TOKEN)
        THEN /\ pc = "done"
             /\ resp.status = 500
             /\ fetches = <<>>
        ELSE /\ Len(fetches) = 1
             /\ fetches[1].path = <<"v1", "chat", "completions">>
             /\ fetches[1].headers.Authorization =
                    <<"Bearer ", env.OPENCLAW_GATEWAY_TOKEN>>
             /\ upstream.kind = "response" =>
                    pc = "done" /\ resp = upstream.response

C17_Witness ==
    /\ pc = "done"
    /\ Authenticated /\ ChatRequest
    /\ Present(env.OPENCLAW_GATEWAY_TOKEN)
    /\ Len(fetches) = 1
    /\ upstream.kind = "response"
    /\ upstream.response.status = 200
    /\ resp = upstream.response

C17_WitnessUnset ==
    /\ pc = "done"
    /\ Authenticated /\ ChatRequest
    /\ ~Present(env.OPENCLAW_GATEWAY_TOKEN)
    /\ ErrorResponse(500, "Server configuration error")
    /\ fetches = <<>>

\* The request is the upgrade attempt of GET /.
UpgradeAttempt ==
    req.method = "GET" /\ req.path = <<>> /\ req.upgrade = "websocket"

\* C18: when the backend cannot be reached the response is 500 on a plain
\* forwarded request and 502 on the upgrade attempt of GET /; no socket is
\* accepted and the request is not retried.
C18_TransportFailure ==
    (upstream.kind = "error") =>
        /\ pc \in {"done", "delivered"}
        /\ Len(fetches) = 1
        /\ server \in {"none", "pending"}
        /\ openclawWs = "none"
        /\ ~listeners
        /\ events = <<>>
        /\ pc = "done" =>
            resp.status = IF UpgradeAttempt THEN 502 ELSE 500

C18_Witness ==
    /\ pc = "done"
    /\ upstream.kind = "error"
    /\ UpgradeAttempt
    /\ pairs = 1
    /\ server = "pending"
    /\ resp.status = 502

C18_WitnessPlain ==
    /\ pc = "done"
    /\ upstream.kind = "error"
    /\ req.method = "GET" /\ req.path = <<"app", "assets", "a.js">>
    /\ ErrorResponse(500, "Internal server error")

\* ------------------------------------------------------ verifier result
\* The three results of the verification, read off the answered request.
ResultAuthenticated == authVia \in {"jwt", "service-token"}

ResultRejected ==
    /\ authVia = Undef
    /\ \/ ErrorResponse(403, "Missing required CF Access JWT or service token")
       \/ ErrorResponse(403, "Invalid or expired token")
       \/ ErrorResponse(403, "Invalid service token")

ResultConfigurationFault ==
    authVia = Undef /\ ErrorResponse(500, "Server configuration error")

\* C19: every request gets exactly one verification result, Authenticated,
\* Rejected 403 or ConfigurationFault 500, and no exception escapes the
\* verification: a token verification that fails, also because the key set
\* could not be fetched, ends as Rejected 403; the handler is invoked
\* once when the result is Authenticated and not at all otherwise.
C19_OneVerificationResult ==
    /\ nextCalls <= 1
    /\ nextCalls = 1 => ResultAuthenticated
    /\ Len(verifyCalls) <= 1
    /\ pc \in {"done", "delivered"} =>
        /\ \/ ResultAuthenticated /\ nextCalls = 1
           \/ /\ ResultRejected \/ ResultConfigurationFault
              /\ nextCalls = 0
              /\ route = Undef
              /\ fetches = <<>>
              /\ pairs = 0
        /\ (verifyCalls # <<>> /\ authVia # "jwt") =>
              ErrorResponse(403, "Invalid or expired token")
        /\ (verifyCalls # <<>> /\ verifyCalls[1].keys = {}) => authVia = Undef

C19_Witness ==
    /\ pc = "done"
    /\ req.jwt = "jwt-valid"
    /\ Len(verifyCalls) = 1
    /\ verifyCalls[1].keys = {}
    /\ nextCalls = 0
    /\ ErrorResponse(403, "Invalid or expired token")

\* --------------------------------------------------------- static routes
AssetRow == Len(req.path) >= 2 /\ req.path[1] = "app" /\ req.path[2] = "assets"

FaviconRow ==
    req.path \in {<<"app", "favicon.ico">>, <<"app", "favicon.svg">>}

\* The backend path the routing table gives a GET under /app or /assets.
TablePath ==
    CASE AssetRow -> SubSeq(req.path, 2, Len(req.path))
      [] FaviconRow -> <<req.path[2]>>
      [] StartsWith(req.path, "app") -> <<>>
      [] OTHER -> req.path

\* C20: an authenticated GET /app/assets/<p> is forwarded to /assets/<p>,
\* GET /app/favicon.ico and /app/favicon.svg to /favicon.ico and
\* /favicon.svg, every other GET /app/<anything> to the backend root /,
\* and GET /assets/<p> to the same path; the /app/* catch-all never
\* handles a request of the asset or favicon rows.
C20_FirstMatchWins ==
    (Authenticated /\ req.method = "GET" /\ pc \in {"fetch", "done"}
        /\ (StartsWith(req.path, "app") \/ StartsWith(req.path, "assets"))) =>
        /\ Len(fetches) = 1
        /\ fetches[1].method = "GET"
        /\ fetches[1].path = TablePath
        /\ (AssetRow \/ FaviconRow) => route # "spa"

C20_Witness ==
    /\ pc = "done"
    /\ Authenticated
    /\ req.method = "GET" /\ req.path = <<"app", "assets", "a.js">>
    /\ route = "appAssets"
    /\ fetches[1].path = <<"assets", "a.js">>
    /\ upstream.kind = "response"
    /\ resp = upstream.response

C20_WitnessSpa ==
    /\ pc = "done"
    /\ Authenticated
    /\ req.method = "GET" /\ req.path = <<"app", "chat">>
    /\ route = "spa"
    /\ fetches[1].path = <<>>

\* ------------------------------------------------------ bridge teardown
\* A socket of an established session got a close or an error event.
TeardownBegun ==
    \E i \in 1..Len(events) :
        events[i].type \in {"close", "error"} /\ Established(events[i])

NoSocketOpen == server # "open" /\ openclawWs # "open"

\* C21: in an established session, once either socket got a close or an
\* error event the paired socket is eventually closed: no session stays
\* with one side closed and the other open, whatever code the close event
\* carried.
C21_TeardownLiveness == TeardownBegun ~> NoSocketOpen

\* ----------------------------------------------------- forward failures
\* The state the destination of event e was in when e arrived.
DestinationState(e) == IF e.sock = "server" THEN e.openclawWs ELSE e.server

\* The message events whose forwarding failed: the destination was not open.
FailedForwards ==
    SelectSeq(events, LAMBDA e : e.type = "message" /\ DestinationState(e) # "open")

ForwardErrorLogs ==
    SelectSeq(log, LAMBDA l :
        l[1] = "error" /\ l[2] \in {"[WS] Error forwarding to OpenClaw:",
                                    "[WS] Error forwarding to client:"})

\* The data of the messages socket x received while its destination was
\* open, oldest first.
DeliverableOn(x) ==
    LET sel == SelectSeq(events, LAMBDA e :
                 e.sock = x /\ e.type = "message" /\ DestinationState(e) = "open")
    IN [i \in 1..Len(sel) |-> sel[i].data]

\* C22: a message whose forwarding fails is logged and the failure closes
\* neither socket; the messages that follow, in either direction, are still
\* handed to send() and go out whenever their destination is open.
C22_ForwardFailureKeepsSession ==
    /\ Len(ForwardErrorLogs) = Len(FailedForwards)
    /\ (events # <<>> /\ LastEvent.type = "message") =>
          server = LastEvent.server /\ openclawWs = LastEvent.openclawWs
    /\ Len(SelectSeq(calls, LAMBDA c : c.op = "close")) =
          Len(SelectSeq(events, LAMBDA e : e.type \in {"close", "error"}))
    /\ Len(SelectSeq(calls, LAMBDA c : c.op = "send")) =
          Len(SelectSeq(events, LAMBDA e : e.type = "message"))
    /\ \A x \in Sockets : sent[OtherSocket(x)] = DeliverableOn(x)

C22_Witness ==
    /\ Len(events) = 3
    /\ events[1].type = "close" /\ events[1].sock = "server"
    /\ FailedForwards = <<events[2], events[3]>>
    /\ events[3].sock = "openclawWs"
    /\ openclawWs = "open"
    /\ Len(ForwardErrorLogs) = 2
    /\ Len(calls) = 3 /\ calls[3].op = "send"

\* ----------------------------------------------------- verifier logging
\* C23: every rejection by the verification and every configuration fault
\* leaves a diagnostic log entry that gives the reason, and no log entry
\* holds the client secret or the bearer token the request presented.
C23_RejectionsLogged ==
    (pc = "done" /\ authVia = Undef) =>
        /\ \E j \in 1..Len(log) : log[j][1] = "error" /\ Len(log[j]) >= 2
        /\ \A j \in 1..Len(log) : \A k \in 1..Len(log[j]) :
              /\ Present(req.clientSecret) => log[j][k] # req.clientSecret
              /\ Present(req.jwt) => log[j][k] # req.jwt

\* ------------------------------------------------------- bridge trigger
RootGet == req.method = "GET" /\ req.path = <<>>

\* C24: only an authenticated GET / whose Upgrade header is websocket
\* starts the bridge; a request with Upgrade: websocket on any other path
\* or method creates no socket pair and is forwarded as usual or answered
\* 404, and no request other than GET / is answered 101.
C24_BridgeOnlyOnRootUpgrade ==
    /\ (pairs > 0 \/ server # "none" \/ openclawWs # "none" \/ listeners) =>
          /\ route = "root"
          /\ authVia # Undef
          /\ InHand => UpgradeAttempt
    /\ (InHand /\ ~RootGet) =>
          /\ pairs = 0
          /\ server = "none"
          /\ resp.status # 101
          /\ resp.webSocket = Undef
    /\ (Authenticated /\ ~RootGet /\ req.upgrade = "websocket" /\ pc = "done") =>
          \/ fetches # <<>> /\ route # "root"
          \/ ErrorResponse(404, "Not found")
          \/ ChatRequest /\ ErrorResponse(500, "Server configuration error")

C24_Witness ==
    /\ pc = "done"
    /\ Authenticated
    /\ req.method = "GET" /\ req.path = <<"app", "chat">>
    /\ req.upgrade = "websocket"
    /\ pairs = 0
    /\ Len(fetches) = 1
    /\ upstream.kind = "response"
    /\ resp = upstream.response
    /\ resp.status = 200

\* -------------------------------------------------------------- no retry
\* The number of backend requests the request in hand calls for.
BackendRequestsDue ==
    IF ~Authenticated \/ ~InRoutingTable THEN 0
    ELSE IF ChatRequest /\ ~Present(env.OPENCLAW_GATEWAY_TOKEN) THEN 0
    ELSE IF RootGet /\ req.upgrade # "websocket" THEN 0
    ELSE 1

\* C25: a request causes at most one backend request: exactly one on a
\* forwarding route or an upgrade attempt that passes its checks, none on a
\* redirect, a 404, an authentication failure or a missing upstream token;
\* a backend request that fails is not issued again.
C25_NoRetry ==
    /\ Len(fetches) <= 1
    /\ pc \in {"fetch", "done"} => Len(fetches) = BackendRequestsDue
    /\ upstream.kind # "none" => Len(fetches) = 1

C25_Witness ==
    /\ pc = "done"
    /\ Authenticated
    /\ req.method = "POST" /\ req.path = <<"tools", "invoke">>
    /\ upstream.kind = "error"
    /\ Len(fetches) = 1
    /\ ErrorResponse(500, "Failed to invoke tool")

\* --------------------------------------------------- concurrent requests
\* The state of in-flight request i, whether it is running or waiting.
RequestState(i) == IF i = cur THEN RequestRecord ELSE saved[i]

\* The verification result and the response of r follow from the headers
\* of r and the configuration, as they do when r is the only request.
ResultOwn(r) ==
    r.pc \in {"route", "fetch", "done"} =>
        /\ (r.authVia = "service-token") =
              (/\ Present(r.req.clientId) /\ Present(r.req.clientSecret)
               /\ r.req.clientId = env.CF_ACCESS_CLIENT_ID
               /\ r.req.clientSecret = env.CF_ACCESS_CLIENT_SECRET)
        /\ (r.authVia = "jwt") =>
              /\ ~(Present(r.req.clientId) /\ Present(r.req.clientSecret))
              /\ r.req.jwt \in DOMAIN TokenClaims
              /\ TokenClaims[r.req.jwt].sig = "access-key"
              /\ TokenClaims[r.req.jwt].aud = env.CF_ACCESS_AUD
              /\ TokenClaims[r.req.jwt].time = "within"
        /\ r.authVia = Undef =>
              r.nextCalls = 0 /\ r.fetches = <<>> /\ r.pairs = 0 /\ r.resp.status = 403
        /\ (r.upstream.kind = "response" /\ r.route # "root") =>
              r.resp = r.upstream.response

\* C26: under every interleaving of the steps of the in-flight requests, a
\* step of one request (verification, fetch, socket event) changes nothing
\* of another request, its sockets included, the configuration is only
\* read, and each request gets the verification result and the response it
\* gets when it runs alone.
C26_RequestsIndependent ==
    [][ /\ env' = env
        /\ \A i \in RequestIds :
              /\ (i # cur \/ cur' # cur) => RequestState(i)' = RequestState(i)
              /\ ResultOwn(RequestState(i))' ]_vars

C26_Witness ==
    /\ cur = 2
    /\ saved[1].authVia = "service-token"
    /\ saved[1].server = "open" /\ saved[1].openclawWs = "open"
    /\ saved[1].sent["openclawWs"] = <<"frame-a">>
    /\ authVia = "jwt"
    /\ events # <<>> /\ LastEvent.type = "close" /\ LastEvent.sock = "server"
    /\ server = "closed" /\ openclawWs = "closing"

\* ------------------------------------------- one service-token header
ExactlyOneServiceHeader == Present(req.clientId) # Present(req.clientSecret)

\* C27 as stated: a request carrying exactly one of the two service-token
\* headers is never answered 'Invalid service token' and is decided by the
\* bearer-assertion path alone.
C27_Original ==
    (pc = "done" /\ ExactlyOneServiceHeader) =>
        /\ ~ErrorResponse(403, "Invalid service token")
        /\ BearerResult

\* C27 amended: a request carrying exactly one of the two service-token
\* headers is never answered 'Invalid service token', and with team domain
\* and audience configured it is decided by the bearer-assertion path
\* alone.
C27_OneHeaderIsBearerPath ==
    (pc = "done" /\ ExactlyOneServiceHeader) =>
        /\ ~ErrorResponse(403, "Invalid service token")
        /\ authVia # "service-token"
        /\ Configured => BearerResult

C27_Witness ==
    /\ pc = "done"
    /\ Configured /\ PairConfigured
    /\ req.clientId = Undef /\ req.clientSecret = env.CF_ACCESS_CLIENT_SECRET
    /\ req.jwt = Undef
    /\ ErrorResponse(403, "Missing required CF Access JWT or service token")

\* ------------------------------------------------------- tools headers
ToolsRequest == req.method = "POST" /\ req.path = <<"tools", "invoke">>

\* C28: for an authenticated POST /tools/invoke the backend request
\* carries every inbound header unchanged except Origin, which is the
\* backend origin; no upstream bearer credential is added and the body is
\* the inbound body.
C28_ToolsHeadersAndBody ==
    (Authenticated /\ ToolsRequest /\ pc \in {"fetch", "done"}) =>
        /\ Len(fetches) = 1
        /\ fetches[1].method = "POST"
        /\ fetches[1].path = <<"tools", "invoke">>
        /\ fetches[1].body = req.body
        /\ LET h == fetches[1].headers IN
            /\ h.Origin = "http://localhost:18789"
            /\ h.clientId = req.clientId
            /\ h.clientSecret = req.clientSecret
            /\ h.jwt = req.jwt
            /\ h.Upgrade = req.upgrade
            /\ h.Authorization = <<>>
            /\ h.ContentType = Undef
            /\ h.Connection = Undef
            /\ h.SecWebSocketVersion = Undef

C28_Witness ==
    /\ pc = "done"
    /\ Authenticated /\ ToolsRequest
    /\ req.origin = "https://caller.example"
    /\ req.body = "body-b"
    /\ req.jwt = "jwt-valid"
    /\ Present(env.OPENCLAW_GATEWAY_TOKEN)
    /\ fetches[1].headers.Origin = "http://localhost:18789"
    /\ fetches[1].headers.jwt = "jwt-valid"
    /\ fetches[1].body = "body-b"
    /\ upstream.kind = "response"

\* ----------------------------------------------------- handler failures
\* C29: when a route handler fails after the request was authenticated the
\* response does not depend on how it was authenticated: a failure no
\* handler catches is answered 500 {"error":"Internal server error"} for a
\* service-token and for a bearer request, and a bearer request is never
\* answered 403 'Invalid or expired token' for a failure of the handler.
C29_HandlerFailureSameForBoth ==
    /\ (upstream.kind = "error" /\ pc \in {"done", "delivered"}) =>
          /\ authVia \in {"jwt", "service-token"}
          /\ resp.status \in {500, 502}
          /\ route \notin {"chat", "tools", "root"} =>
                ErrorResponse(500, "Internal server error")
    /\ authVia = "jwt" => ~ErrorResponse(403, "Invalid or expired token")

C29_Witness ==
    /\ pc = "done"
    /\ authVia = "jwt"
    /\ route = "assets"
    /\ upstream.kind = "error"
    /\ nextCalls = 1
    /\ ErrorResponse(500, "Internal server error")

C29_WitnessServiceToken ==
    /\ pc = "done"
    /\ authVia = "service-token"
    /\ route = "assets"
    /\ upstream.kind = "error"
    /\ ErrorResponse(500, "Internal server error")

\* ---------------------------------------------------------- relay order
\* The data of all the messages socket x received, oldest first.
AllReceivedOn(x) ==
    LET sel == SelectSeq(events, LAMBDA e : e.sock = x /\ e.type = "message")
    IN [i \in 1..Len(sel) |-> sel[i].data]

\* The data handed to send() on socket y, oldest first.
HandedTo(y) ==
    LET sel == SelectSeq(calls, LAMBDA c : c.op = "send" /\ c.on = y)
    IN [i \in 1..Len(sel) |-> sel[i].args[1]]

\* s is t with some elements left out, the others in the order of t.
RECURSIVE IsSubSeq(_, _)
IsSubSeq(s, t) ==
    IF s = <<>> THEN TRUE
    ELSE IF t = <<>> THEN FALSE
    ELSE IF Head(s) = Head(t) THEN IsSubSeq(Tail(s), Tail(t))
    ELSE IsSubSeq(s, Tail(t))

\* C30: in each direction the messages go to the destination socket in the
\* order they were received on the source socket, each at most once, and
\* nothing goes to a socket that its paired socket did not receive.
C30_RelayOrder ==
    \A x \in Sockets :
        /\ HandedTo(OtherSocket(x)) = AllReceivedOn(x)
        /\ IsSubSeq(sent[OtherSocket(x)], AllReceivedOn(x))
        /\ Len(sent[OtherSocket(x)]) <= Len(AllReceivedOn(x))

C30_Witness ==
    /\ Len(events) = 3
    /\ AllReceivedOn("server") = <<"frame-a", "frame-b">>
    /\ sent["openclawWs"] = <<"frame-a", "frame-b">>
    /\ AllReceivedOn("openclawWs") = <<"frame-b">>
    /\ sent["server"] = <<"frame-b">>

\* ------------------------------------------------- the two verifiers
\* The outcomes the fetch of the key set can have for the request in hand:
\* the one the dual-mode verification saw, or either when it fetched none.
KeySetOutcomes ==
    IF verifyCalls # <<>> THEN {verifyCalls[1].keys}
    ELSE {{}, KeysAt(JwksUrl(env))}

\* C31: for every configuration and every request that does not carry both
\* service-token headers, the dual-mode accessAuth decides as the JWT-only
\* accessAuth of the same file does: the handler runs under one exactly when
\* it runs under the other, and a response returned instead has the same
\* status.
C31_ConservativeExtension ==
    (InHand /\ pc \in {"route", "fetch", "done"} /\ ~BothServiceHeaders) =>
        \A keys \in KeySetOutcomes :
            LET d == accessAuthJwtOnlyDecision(env, req, keys) IN
            /\ d.next = (authVia # Undef)
            /\ d.next => (pc \in {"fetch", "done"} => nextCalls = 1)
            /\ ~d.next =>
                  /\ pc = "done"
                  /\ nextCalls = 0
                  /\ resp.status = d.resp.status

C31_Witness ==
    /\ pc = "done"
    /\ Configured /\ PairConfigured
    /\ req.clientId = env.CF_ACCESS_CLIENT_ID /\ req.clientSecret = Undef
    /\ req.jwt = "jwt-aud"
    /\ Len(verifyCalls) = 1 /\ verifyCalls[1].keys # {}
    /\ nextCalls = 0
    /\ resp.status = 403
    /\ ~accessAuthJwtOnlyDecision(env, req, verifyCalls[1].keys).next

C31_WitnessBothHeadersDiffer ==
    /\ pc = "done"
    /\ BothServiceHeaders /\ MatchesConfiguredPair
    /\ req.jwt = Undef
    /\ authVia = "service-token"
    /\ ~accessAuthJwtOnlyDecision(env, req, {}).next

====
